---- MODULE Spec2Model ----
(***************************************************************************)
(* sync-replaces (fr12k/go-deepmod): the local-path classifier             *)
(* (internal/pathutil), the manifest reader and reconciler                 *)
(* (internal/gomod) and the orchestrator Run (internal/sync).              *)
(*                                                                         *)
(* Strings the code inspects character by character (override targets,     *)
(* dependency paths) are sequences of one-character strings.  Module names *)
(* and versions, which the code only compares or formats, are atoms.       *)
(* Of what Run logs, the lines it logs whatever opts.Verbose is are kept.  *)
(***************************************************************************)
EXTENDS Integers, Sequences, FiniteSets, TLC

VARIABLES
    opts,         \* sync.Options: [DryRun, SkipTidy]
    goList,       \* what `go list -m -json all` prints: a sequence of moduleInfo
    gomod,        \* the go.mod of every dependency directory: Dir -> file
    manifest,     \* the replace statements of the project's go.mod
    pc,           \* position in Run / Deduplicate / IsLocalPath
    deps,         \* Run: deps
    i,            \* Run: index of the loop in progress
    allReplaces,  \* Run: allReplaces; Deduplicate: its argument
    replaces,     \* Run: replaces; Deduplicate: its result
    stale,        \* Run: stale
    output,       \* opts.Output: the lines logged (the non-verbose ones)
    cmds,         \* the `go mod ...` commands runCmd was asked to run, in order
    err,          \* what Run returns ("none": nil)
    before,       \* history: the manifest when the run in progress began
    fault,        \* history: the reads and writes of the project's go.mod that failed in this run
    runNo,        \* which execution this is (1 or 2)
    first,        \* history: replaces, and the manifest at the start, of the first execution
    path,         \* IsLocalPath: its argument
    local         \* IsLocalPath: its result

vars == <<opts, goList, gomod, manifest, pc, deps, i, allReplaces, replaces, stale,
          output, cmds, err, before, fault, runNo, first, path, local>>

runVars == <<opts, goList, gomod, manifest, deps, i, stale, output, cmds, err,
             before, fault>>

(***************************************************************************)
(* Bounds of the model.                                                    *)
(***************************************************************************)
MaxPathLen == 3
MaxLen == 3
MaxDeps == 2
MaxDepLines == 2
MaxManifestLines == 2

SeqsUpTo(S, n) == UNION {[1..k -> S] : k \in 0..n}

ToSet(s) == {s[k] : k \in DOMAIN s}

(***************************************************************************)
(* internal/pathutil                                                       *)
(***************************************************************************)
\* strings.HasPrefix
HasPrefix(s, p) == Len(s) >= Len(p) /\ SubSeq(s, 1, Len(p)) = p

\* filepath.IsAbs of the Unix build: the path begins with the separator.
IsAbs(p) == HasPrefix(p, <<"/">>)

IsLocalPath(p) ==
    IF p = <<>> THEN FALSE
    ELSE IF HasPrefix(p, <<".", "/">>) \/ HasPrefix(p, <<".", ".", "/">>) THEN TRUE
    ELSE IF p = <<".">> \/ p = <<".", ".">> THEN TRUE
    ELSE IF IsAbs(p) THEN TRUE
    ELSE IF Len(p) >= 2 /\ p[2] = ":" THEN TRUE
    ELSE FALSE

\* The characters the classifier tells apart, and a letter and a digit.
PathChars == {".", "/", ":", "a", "1"}
Letters == {"a"}

(***************************************************************************)
(* golang.org/x/mod/semver, on the versions of the model.                  *)
(***************************************************************************)
\* "" is no semantic version; the others parse as major.minor.patch[-pre].
SemverParse(v) ==
    CASE v = "v0.9.0"    -> [ok |-> TRUE, num |-> <<0, 9, 0>>, pre |-> ""]
      [] v = "v1.0.0-rc" -> [ok |-> TRUE, num |-> <<1, 0, 0>>, pre |-> "-rc"]
      [] v = "v1.0.0"    -> [ok |-> TRUE, num |-> <<1, 0, 0>>, pre |-> ""]
      [] v = "v1.2.0"    -> [ok |-> TRUE, num |-> <<1, 2, 0>>, pre |-> ""]
      [] OTHER           -> [ok |-> FALSE, num |-> <<0, 0, 0>>, pre |-> ""]

CompareInt(x, y) == IF x < y THEN -1 ELSE IF x > y THEN 1 ELSE 0

\* A version without a prerelease is above the same version with one.
ComparePrerelease(x, y) ==
    IF x = y THEN 0 ELSE IF x = "" THEN 1 ELSE IF y = "" THEN -1 ELSE 0

\* semver.Compare with its result negated: the highest version wins.
semverCompareReversed(v, w) ==
    LET pv == SemverParse(v)
        pw == SemverParse(w)
    IN  IF ~pv.ok /\ ~pw.ok THEN 0
        ELSE IF ~pv.ok THEN 1
        ELSE IF ~pw.ok THEN -1
        ELSE IF pv.num[1] /= pw.num[1] THEN CompareInt(pw.num[1], pv.num[1])
        ELSE IF pv.num[2] /= pw.num[2] THEN CompareInt(pw.num[2], pv.num[2])
        ELSE IF pv.num[3] /= pw.num[3] THEN CompareInt(pw.num[3], pv.num[3])
        ELSE ComparePrerelease(pw.pre, pv.pre)

\* semver.Compare: an invalid version is below every valid one, two invalid
\* versions are equal.
semverCompare(v, w) ==
    LET pv == SemverParse(v)
        pw == SemverParse(w)
    IN  IF ~pv.ok /\ ~pw.ok THEN 0
        ELSE IF ~pv.ok THEN -1
        ELSE IF ~pw.ok THEN 1
        ELSE IF pv.num[1] /= pw.num[1] THEN CompareInt(pv.num[1], pw.num[1])
        ELSE IF pv.num[2] /= pw.num[2] THEN CompareInt(pv.num[2], pw.num[2])
        ELSE IF pv.num[3] /= pw.num[3] THEN CompareInt(pv.num[3], pw.num[3])
        ELSE ComparePrerelease(pv.pre, pw.pre)

(***************************************************************************)
(* internal/gomod: Replace and Deduplicate                                 *)
(***************************************************************************)
\* gomod.Replace
Replace(old, oldVer, new, newVer, source) ==
    [Old |-> old, OldVer |-> oldVer, New |-> new, NewVer |-> newVer, Source |-> source]

\* The key of a record in byKey: Old, or "Old@OldVer" (the pieces fmt.Sprintf joins).
ReplaceKey(r) == IF r.OldVer /= "" THEN <<r.Old, "@", r.OldVer>> ELSE <<r.Old>>

\* byKey after the first n records of rs went through the loop.
RECURSIVE byKeyAfter(_, _)
byKeyAfter(rs, n) ==
    IF n = 0 THEN <<>>
    ELSE LET m == byKeyAfter(rs, n - 1)
             r == rs[n]
             k == ReplaceKey(r)
         IN  IF k \notin DOMAIN m \/ semverCompare(r.NewVer, m[k].NewVer) < 0
             THEN (k :> r) @@ m
             ELSE m

\* The orders in which `for _, r := range byKey` may visit the keys of m: the
\* iteration order of a Go map is unspecified and differs between executions.
MapOrders(m) ==
    LET n == Cardinality(DOMAIN m)
    IN  {o \in [1..n -> DOMAIN m] : \A a, b \in 1..n : a /= b => o[a] /= o[b]}

\* Every result Deduplicate(rs) can return.
Deduplicate(rs) ==
    LET m == byKeyAfter(rs, Len(rs))
    IN  {[j \in DOMAIN o |-> m[o[j]]] : o \in MapOrders(m)}

(***************************************************************************)
(* internal/gomod: the manifest reader.                                    *)
(*                                                                         *)
(* A dependency's go.mod is [readable, replace]: whether os.ReadFile and   *)
(* modfile.Parse succeed, and the replace directives modfile.Parse finds.  *)
(* The project's go.mod is the sequence of its replace statements, each    *)
(* [block, lines]: a stand-alone `replace old => new ver // comment` line, *)
(* or a `replace ( ... )` block of lines.  A line's Comment is the         *)
(* sequence of the names its trailing comment attributes it to:            *)
(* <<s, t>> is the comment `// from: s // from: t`.                        *)
(***************************************************************************)
IsLocal(r) == IsLocalPath(r.New)

NotLocal(r) == ~IsLocal(r)

AnyTarget(r) == TRUE

DirectiveRecords(file) ==
    [k \in DOMAIN file.replace |->
        Replace(file.replace[k].Old, file.replace[k].OldVer,
                file.replace[k].New, file.replace[k].NewVer, <<>>)]

\* ParseReplaces without the `if !rep.IsLocal()` filter.
ParseReplacesUnfiltered(file) ==
    IF ~file.readable
    THEN [err |-> TRUE, replaces |-> <<>>]
    ELSE [err |-> FALSE, replaces |-> SelectSeq(DirectiveRecords(file), AnyTarget)]

ParseReplaces(file) ==
    IF ~file.readable
    THEN [err |-> TRUE, replaces |-> <<>>]
    ELSE [err |-> FALSE, replaces |-> SelectSeq(DirectiveRecords(file), NotLocal)]

RECURSIVE Lines(_)
Lines(m) == IF m = <<>> THEN <<>> ELSE Head(m).lines \o Lines(Tail(m))

\* strings.TrimSpace(text[idx+5:]) for the first "from:" of a trailing comment:
\* everything after it, later "// from:" markers included.
RECURSIVE AnnotationText(_)
AnnotationText(c) ==
    IF c = <<>> THEN <<>>
    ELSE IF Len(c) = 1 THEN c[1]
    ELSE c[1] \o <<" // from: ">> \o AnnotationText(Tail(c))

HasSource(r) == r.Source /= <<>>

ParseReplacesWithSource(m) ==
    LET ls == Lines(m)
    IN  SelectSeq([k \in DOMAIN ls |->
                      Replace(ls[k].Old, ls[k].OldVer, ls[k].New, ls[k].NewVer,
                              AnnotationText(ls[k].Comment))],
                  HasSource)

(***************************************************************************)
(* The commands runCmd runs: `go mod edit -replace`, `go mod edit          *)
(* -dropreplace` (cmd/go, working through modfile.AddReplace, DropReplace  *)
(* and Cleanup).                                                           *)
(***************************************************************************)
\* modfile's Cleanup: statements left without lines go, a block left with one
\* line becomes a stand-alone line.
NonEmptyStmt(s) == s.lines /= <<>>

Cleanup(m) ==
    LET kept == SelectSeq(m, NonEmptyStmt)
    IN  [k \in DOMAIN kept |->
            IF Len(kept[k].lines) = 1
            THEN [block |-> FALSE, lines |-> kept[k].lines]
            ELSE kept[k]]

\* The loop of modfile.AddReplace over the lines ls, called without an old
\* version: the first line for old is rewritten to `old => new newVer` and keeps
\* its comment, every later line for old is removed.
RECURSIVE ReplaceInLines(_, _, _, _, _)
ReplaceInLines(ls, old, new, newVer, need) ==
    IF ls = <<>> THEN [lines |-> <<>>, need |-> need]
    ELSE LET l == Head(ls)
         IN  IF l.Old = old
             THEN IF need
                  THEN [lines |-> <<[l EXCEPT !.OldVer = "", !.New = new, !.NewVer = newVer]>>
                                  \o ReplaceInLines(Tail(ls), old, new, newVer, FALSE).lines,
                        need |-> FALSE]
                  ELSE ReplaceInLines(Tail(ls), old, new, newVer, FALSE)
             ELSE LET rest == ReplaceInLines(Tail(ls), old, new, newVer, need)
                  IN  [lines |-> <<l>> \o rest.lines, need |-> rest.need]

RECURSIVE ReplaceInStmts(_, _, _, _, _)
ReplaceInStmts(m, old, new, newVer, need) ==
    IF m = <<>> THEN [stmts |-> <<>>, need |-> need]
    ELSE LET here == ReplaceInLines(Head(m).lines, old, new, newVer, need)
             rest == ReplaceInStmts(Tail(m), old, new, newVer, here.need)
         IN  [stmts |-> <<[Head(m) EXCEPT !.lines = here.lines]>> \o rest.stmts,
              need |-> rest.need]

\* `go mod edit -replace=old=new@newVer` that exits 0.  When no line is for old,
\* addLine puts the new line at the end of the last replace statement, turning
\* a stand-alone line into a block; with no replace statement it adds a line.
GoModEditReplace(m, old, new, newVer) ==
    LET done == ReplaceInStmts(m, old, new, newVer, TRUE)
        line == [Old |-> old, OldVer |-> "", New |-> new, NewVer |-> newVer,
                 Comment |-> <<>>]
    IN  IF ~done.need THEN Cleanup(done.stmts)
        ELSE IF m = <<>> THEN <<[block |-> FALSE, lines |-> <<line>>]>>
        ELSE Cleanup([m EXCEPT ![Len(m)] =
                        [block |-> TRUE, lines |-> Append(m[Len(m)].lines, line)]])

\* `go mod edit -dropreplace=old[@oldVer]` that exits 0: modfile.DropReplace
\* removes the lines whose old path and old version are exactly these.
GoModEditDropReplace(m, old, oldVer) ==
    LET Keep(l) == ~(l.Old = old /\ l.OldVer = oldVer)
    IN  Cleanup([k \in DOMAIN m |-> [m[k] EXCEPT !.lines = SelectSeq(m[k].lines, Keep)]])

(***************************************************************************)
(* internal/sync                                                           *)
(***************************************************************************)
\* strings.Contains(content, pattern) at statement s, for
\* pattern = "replace Old => New NewVer": only a stand-alone line starts with
\* the keyword, and a line with an old version has it before the arrow.
PatternAt(s, r) ==
    /\ ~s.block
    /\ s.lines[1].Old = r.Old
    /\ s.lines[1].OldVer = ""
    /\ s.lines[1].New = r.New
    /\ s.lines[1].NewVer = r.NewVer

\* strings.Contains(content, pattern+comment) at statement s, for
\* comment = " // from: Source": the text after the marker need only begin
\* with Source.
CommentAt(s, r) ==
    /\ PatternAt(s, r)
    /\ s.lines[1].Comment /= <<>>
    /\ HasPrefix(AnnotationText(s.lines[1].Comment), r.Source)

\* addSourceComment whose ReadFile and WriteFile succeed: strings.Replace puts
\* the comment after the first occurrence of the pattern, before whatever
\* followed it.
addSourceComment(m, r) ==
    LET hits == {k \in DOMAIN m : PatternAt(m[k], r)}
    IN  IF hits /= {} /\ ~\E k \in DOMAIN m : CommentAt(m[k], r)
        THEN LET k == CHOOSE h \in hits : \A g \in hits : h <= g
             IN  [m EXCEPT ![k].lines[1].Comment = <<r.Source>> \o @]
        ELSE m

\* findStaleReplaces whose read of go.mod succeeds.
findStaleReplaces(m, current) ==
    LET currentKeys == {current[k].Old : k \in DOMAIN current}
        Gone(r) == r.Old \notin currentKeys
    IN  SelectSeq(ParseReplacesWithSource(m), Gone)

\* listDirectDeps: the entries of `go list -m -json all` that are neither the
\* main module nor indirect.
Direct(mi) == ~mi.Main /\ ~mi.Indirect

listDirectDeps(list) == SelectSeq(list, Direct)

Stamp(rs, source) == [k \in DOMAIN rs |-> [rs[k] EXCEPT !.Source = source]]

\* The body of the collection loop without `replaces[i].Source = dep.Path`.
collectDepUnstamped(dep, files) ==
    IF dep.Dir = "" THEN <<>>
    ELSE LET p == ParseReplaces(files[dep.Dir])
         IN  IF p.err THEN <<>> ELSE p.replaces

\* The body of the collection loop for one dependency: what it appends to
\* allReplaces (nothing for a dependency it skips).
collectDep(dep, files) ==
    IF dep.Dir = "" THEN <<>>
    ELSE LET p == ParseReplaces(files[dep.Dir])
         IN  IF p.err THEN <<>> ELSE Stamp(p.replaces, dep.Path)

\* The argument of -dropreplace without the `if r.OldVer != ""` branch.
DropArgOldOnly(r) == [Old |-> r.Old, OldVer |-> ""]

\* The argument of -dropreplace: Old, or Old@OldVer.
DropArg(r) == [Old |-> r.Old, OldVer |-> r.OldVer]

\* `if opts.DryRun` ignored.
DryRunIgnored(o) == FALSE

\* `if opts.DryRun`
DryRunBranch(o) == o.DryRun

\* `if !opts.SkipTidy` ignored.
EnterTidyAlways(o) == "tidy"

\* Where Run goes once the removals are done.
EnterTidy(o) == IF ~o.SkipTidy THEN "tidy" ELSE "done"

\* Where Run goes once the edits are done.
EnterRemove(o, nStale) == IF nStale > 0 THEN "remove" ELSE EnterTidy(o)

\* Where Run goes after the dry-run branch.
EnterApply(o, nReplaces, nStale) ==
    IF nReplaces > 0 THEN "apply" ELSE EnterRemove(o, nStale)

NoRec == Replace("", "", <<>>, "", <<>>)

Line(kind, r, n) == [kind |-> kind, rec |-> r, n |-> n]

LinesOf(kind, rs) == [k \in DOMAIN rs |-> Line(kind, rs[k], 0)]

\* What the dry-run branch logs.
WouldLines(rs, st) ==
    (IF rs /= <<>>
     THEN <<Line("Would apply N", NoRec, Len(rs))>> \o LinesOf("Would apply", rs)
     ELSE <<>>)
    \o
    (IF st /= <<>>
     THEN <<Line("Would remove N", NoRec, Len(st))>> \o LinesOf("Would remove", st)
     ELSE <<>>)

Cmd(op, old, oldVer, new, newVer, ok) ==
    [op |-> op, Old |-> old, OldVer |-> oldVer, New |-> new, NewVer |-> newVer,
     ok |-> ok]

(***************************************************************************)
(* The inputs of a run.                                                    *)
(***************************************************************************)
D1 == <<"d">>
D2 == <<"d", "2">>

\* Path and Dir of the k-th module `go list` prints after the main module.
DepNames == <<D1, D2, <<"e">>, <<"f">>>>
DirNames == <<"/mod/d", "/mod/d2", "/mod/e", "/mod/f">>

Directive(old, oldVer, new, newVer) ==
    [Old |-> old, OldVer |-> oldVer, New |-> new, NewVer |-> newVer]

\* The replace directives a dependency's go.mod is made of, in the order they
\* appear in it.
DepLines ==
    << Directive("a", "", <<"b">>, "v1.0.0"),
       Directive("a", "", <<"b">>, "v1.2.0"),
       Directive("a", "v0.9.0", <<"c">>, "v1.0.0"),
       Directive("x", "", <<"b">>, "v1.0.0"),
       Directive("x", "", <<".", "/", "l">>, "") >>

\* The members of the sequence all whose indices are in c, in its order.
RECURSIVE InOrder(_, _)
InOrder(all, c) ==
    IF c = {} THEN <<>>
    ELSE LET k == CHOOSE a \in c : \A b \in c : a <= b
         IN  <<all[k]>> \o InOrder(all, c \ {k})

Unreadable == [readable |-> FALSE, replace |-> <<>>]

DepFiles ==
    {Unreadable} \cup
    {[readable |-> TRUE, replace |-> InOrder(DepLines, c)] :
        c \in {c \in SUBSET (DOMAIN DepLines) : Cardinality(c) <= MaxDepLines}}

\* A module of the list: indirect, without a local directory, or direct with a
\* go.mod.
DepOptions ==
    { [Indirect |-> TRUE, HasDir |-> TRUE,
       file |-> [readable |-> TRUE, replace |-> <<Directive("a", "", <<"b">>, "v0.9.0")>>]],
      [Indirect |-> FALSE, HasDir |-> FALSE, file |-> Unreadable] }
    \cup {[Indirect |-> FALSE, HasDir |-> TRUE, file |-> f] : f \in DepFiles}

MainModule == [Path |-> <<"m">>, Version |-> "", Dir |-> "/proj", Main |-> TRUE, Indirect |-> FALSE]

ModuleInfo(k, o) ==
    [Path |-> DepNames[k], Version |-> "v1.0.0",
     Dir |-> IF o.HasDir THEN DirNames[k] ELSE "", Main |-> FALSE, Indirect |-> o.Indirect]

ManifestLine(old, oldVer, new, newVer, comment) ==
    [Old |-> old, OldVer |-> oldVer, New |-> new, NewVer |-> newVer, Comment |-> comment]

\* The replace lines the project's go.mod is made of, in the order they appear.
ManifestLines ==
    << ManifestLine("a", "", <<"b">>, "v1.0.0", <<>>),
       ManifestLine("a", "", <<"b">>, "v1.0.0", <<D2>>),
       ManifestLine("x", "", <<"b">>, "v1.0.0", <<D1>>),
       ManifestLine("x", "v0.9.0", <<"b">>, "v1.2.0", <<>>),
       ManifestLine("x", "v0.9.0", <<"b">>, "v1.2.0", <<D1>>),
       ManifestLine("z", "", <<".", "/", "z">>, "", <<>>) >>

\* go.mod files the go command accepts: at most one replacement for an old
\* path and version.
LineChoices ==
    {c \in SUBSET (DOMAIN ManifestLines) :
        /\ Cardinality(c) <= MaxManifestLines
        /\ \A a, b \in c : a /= b =>
              <<ManifestLines[a].Old, ManifestLines[a].OldVer>>
                  /= <<ManifestLines[b].Old, ManifestLines[b].OldVer>>}

\* The lines as stand-alone statements, or all in one block.
Layout(ls, block) ==
    IF block /\ Len(ls) >= 2
    THEN <<[block |-> TRUE, lines |-> ls]>>
    ELSE [k \in DOMAIN ls |-> [block |-> FALSE, lines |-> <<ls[k]>>]]

Manifests == {Layout(InOrder(ManifestLines, c), b) : c \in LineChoices, b \in BOOLEAN}

Options == [DryRun : BOOLEAN, SkipTidy : BOOLEAN]

(***************************************************************************)
(* Run                                                                     *)
(***************************************************************************)
NoFirst == [replaces |-> <<>>, before |-> <<>>]

AtRest ==
    /\ deps = <<>>
    /\ i = 1
    /\ allReplaces = <<>>
    /\ replaces = <<>>
    /\ stale = <<>>
    /\ output = <<>>
    /\ cmds = <<>>
    /\ err = "none"
    /\ fault = {}
    /\ runNo = 1
    /\ first = NoFirst
    /\ path = <<>>
    /\ local = FALSE

Init ==
    /\ opts \in Options
    /\ \E n \in 0..MaxDeps : \E choice \in [1..n -> DepOptions] :
          /\ goList = <<MainModule>> \o [k \in 1..n |-> ModuleInfo(k, choice[k])]
          /\ gomod = [d \in {DirNames[k] : k \in {j \in 1..n : choice[j].HasDir}} |->
                        choice[CHOOSE k \in 1..n : DirNames[k] = d].file]
    /\ manifest \in Manifests
    /\ before = manifest
    /\ pc = "start"
    /\ AtRest

\* Lines 43-63: the working directory and listDirectDeps.  os.Getwd or
\* `go list` may fail, and Run returns the error.
Start ==
    /\ pc = "start"
    /\ \E outcome \in {"ok", "getwd", "listing deps"} :
          IF outcome = "ok"
          THEN /\ deps' = listDirectDeps(goList)
               /\ pc' = IF deps' = <<>> THEN "reconcile" ELSE "collect"
               /\ err' = err
          ELSE /\ err' = outcome
               /\ pc' = "done"
               /\ deps' = deps
    /\ UNCHANGED <<opts, goList, gomod, manifest, i, allReplaces, replaces, stale,
                   output, cmds, before, fault, runNo, first, path, local>>

\* Lines 67-85: one iteration of the collection loop.
Collect ==
    /\ pc = "collect"
    /\ allReplaces' = allReplaces \o collectDep(deps[i], gomod)
    /\ IF i < Len(deps)
       THEN i' = i + 1 /\ pc' = pc
       ELSE i' = 1 /\ pc' = "reconcile"
    /\ UNCHANGED <<opts, goList, gomod, manifest, deps, replaces, stale, output, cmds,
                   err, before, fault, runNo, first, path, local>>

\* Lines 87-115: Deduplicate, findStaleReplaces (a failure to read go.mod
\* leaves stale nil), the short circuit and the dry-run branch.
Reconcile ==
    /\ pc = "reconcile"
    /\ \E rs \in Deduplicate(allReplaces), staleErr \in BOOLEAN :
          LET st == IF staleErr THEN <<>> ELSE findStaleReplaces(manifest, rs)
          IN  /\ replaces' = rs
              /\ stale' = st
              /\ fault' = IF staleErr THEN fault \cup {"findStaleReplaces"} ELSE fault
              /\ IF rs = <<>> /\ st = <<>>
                 THEN /\ output' = Append(output, Line("No replace directives to sync", NoRec, 0))
                      /\ pc' = "done"
                 ELSE IF DryRunBranch(opts)
                 THEN /\ output' = output \o WouldLines(rs, st)
                      /\ pc' = "done"
                 ELSE /\ output' = output
                      /\ pc' = EnterApply(opts, Len(rs), Len(st))
    /\ i' = 1
    /\ UNCHANGED <<opts, goList, gomod, manifest, deps, allReplaces, cmds, err, before,
                   runNo, first, path, local>>

\* Lines 117-127: one iteration of the apply loop.  The command may fail, and
\* Run returns; addSourceComment may fail to read or write go.mod, and Run goes on.
ApplyOne ==
    /\ pc = "apply"
    /\ LET r == replaces[i]
       IN  \E ok \in BOOLEAN, ioErr \in BOOLEAN :
              /\ cmds' = Append(cmds, Cmd("replace", r.Old, "", r.New, r.NewVer, ok))
              /\ IF ok
                 THEN /\ manifest' =
                            IF ioErr
                            THEN GoModEditReplace(manifest, r.Old, r.New, r.NewVer)
                            ELSE addSourceComment(
                                     GoModEditReplace(manifest, r.Old, r.New, r.NewVer), r)
                      /\ fault' = IF ioErr THEN fault \cup {"addSourceComment"} ELSE fault
                      /\ output' = Append(output, Line("Applied", r, 0))
                      /\ err' = err
                      /\ IF i < Len(replaces)
                         THEN i' = i + 1 /\ pc' = pc
                         ELSE i' = 1 /\ pc' = EnterRemove(opts, Len(stale))
                 ELSE /\ err' = "applying replace"
                      /\ pc' = "done"
                      /\ UNCHANGED <<manifest, fault, output, i>>
    /\ UNCHANGED <<opts, goList, gomod, deps, allReplaces, replaces, stale, before,
                   runNo, first, path, local>>

\* Lines 129-139: one iteration of the removal loop.
RemoveOne ==
    /\ pc = "remove"
    /\ LET r == stale[i]
       IN  \E ok \in BOOLEAN :
              /\ cmds' = Append(cmds, Cmd("dropreplace", DropArg(r).Old, DropArg(r).OldVer,
                                          <<>>, "", ok))
              /\ IF ok
                 THEN /\ manifest' = GoModEditDropReplace(manifest, DropArg(r).Old,
                                                          DropArg(r).OldVer)
                      /\ output' = Append(output, Line("Removed stale", r, 0))
                      /\ err' = err
                      /\ IF i < Len(stale)
                         THEN i' = i + 1 /\ pc' = pc
                         ELSE i' = 1 /\ pc' = EnterTidy(opts)
                 ELSE /\ err' = "removing stale replace"
                      /\ pc' = "done"
                      /\ UNCHANGED <<manifest, output, i>>
    /\ UNCHANGED <<opts, goList, gomod, deps, allReplaces, replaces, stale, before,
                   fault, runNo, first, path, local>>

\* Lines 141-148: `go mod tidy`, which leaves the replace statements alone.
Tidy ==
    /\ pc = "tidy"
    /\ \E ok \in BOOLEAN :
          /\ cmds' = Append(cmds, Cmd("tidy", "", "", <<>>, "", ok))
          /\ err' = IF ok THEN err ELSE "go mod tidy"
    /\ pc' = "done"
    /\ UNCHANGED <<opts, goList, gomod, manifest, deps, i, allReplaces, replaces, stale,
                   output, before, fault, runNo, first, path, local>>

Next == Start \/ Collect \/ Reconcile \/ ApplyOne \/ RemoveOne \/ Tidy

Spec == Init /\ [][Next]_vars

(***************************************************************************)
(* Two runs in a row over the same dependencies, without `go mod tidy`:    *)
(* the tool is run again after a run that returned nil.                    *)
(***************************************************************************)
InitTwice ==
    /\ Init
    /\ ~opts.DryRun
    /\ opts.SkipTidy
    /\ \A d \in DOMAIN gomod : Len(gomod[d].replace) <= 1

Rerun ==
    /\ pc = "done"
    /\ err = "none"
    /\ runNo = 1
    /\ runNo' = 2
    /\ first' = [replaces |-> replaces, before |-> before]
    /\ before' = manifest
    /\ pc' = "start"
    /\ deps' = <<>>
    /\ i' = 1
    /\ allReplaces' = <<>>
    /\ replaces' = <<>>
    /\ stale' = <<>>
    /\ output' = <<>>
    /\ cmds' = <<>>
    /\ UNCHANGED <<opts, goList, gomod, manifest, err, fault, path, local>>

NextTwice == Start \/ Collect \/ Reconcile \/ ApplyOne \/ RemoveOne \/ Rerun

SpecTwice == InitTwice /\ [][NextTwice]_vars

(***************************************************************************)
(* Deduplicate on its own, executed twice on the same list.                *)
(***************************************************************************)
DedupOlds == {"a", "x"}
DedupOldVers == {"", "v0.9.0"}
DedupNewVers == {"", "v1.0.0-rc", "v1.0.0", "v1.2.0"}

\* The k-th record of a list comes from the k-th dependency.
DedupInputs ==
    UNION {
        {[k \in 1..n |-> Replace(c[k][1], c[k][2], <<"b">>, c[k][3], DepNames[k])] :
            c \in [1..n -> DedupOlds \X DedupOldVers \X DedupNewVers]}
        : n \in 0..MaxLen}

IdleRun ==
    /\ opts = [DryRun |-> FALSE, SkipTidy |-> FALSE]
    /\ goList = <<>>
    /\ gomod = <<>>
    /\ manifest = <<>>
    /\ before = <<>>

InitDedup ==
    /\ allReplaces \in DedupInputs
    /\ pc = "dedup"
    /\ IdleRun
    /\ deps = <<>> /\ i = 1 /\ replaces = <<>> /\ stale = <<>> /\ output = <<>>
    /\ cmds = <<>> /\ err = "none" /\ fault = {} /\ runNo = 1 /\ first = NoFirst
    /\ path = <<>> /\ local = FALSE

DedupCall ==
    /\ pc = "dedup"
    /\ replaces' \in Deduplicate(allReplaces)
    /\ pc' = "deduped"
    /\ UNCHANGED <<runVars, allReplaces, runNo, first, path, local>>

DedupAgain ==
    /\ pc = "deduped"
    /\ runNo = 1
    /\ runNo' = 2
    /\ first' = [replaces |-> replaces, before |-> before]
    /\ replaces' = <<>>
    /\ pc' = "dedup"
    /\ UNCHANGED <<runVars, allReplaces, path, local>>

NextDedup == DedupCall \/ DedupAgain

SpecDedup == InitDedup /\ [][NextDedup]_vars

(***************************************************************************)
(* IsLocalPath on its own.                                                 *)
(***************************************************************************)
InitPath ==
    /\ path \in SeqsUpTo(PathChars, MaxPathLen)
    /\ local = FALSE
    /\ pc = "classify"
    /\ IdleRun
    /\ deps = <<>> /\ i = 1 /\ allReplaces = <<>> /\ replaces = <<>> /\ stale = <<>>
    /\ output = <<>> /\ cmds = <<>> /\ err = "none" /\ fault = {} /\ runNo = 1
    /\ first = NoFirst

Classify ==
    /\ pc = "classify"
    /\ local' = IsLocalPath(path)
    /\ pc' = "classified"
    /\ UNCHANGED <<runVars, allReplaces, replaces, runNo, first, path>>

NextPath == Classify

SpecPath == InitPath /\ [][NextPath]_vars

(***************************************************************************)
(* Properties of Run, Deduplicate and IsLocalPath.                         *)
(***************************************************************************)
Olds == {"a", "x", "z"}

Finished == pc = "done" /\ err = "none"

NoBlock(m) == \A k \in DOMAIN m : ~m[k].block

\* The direct dependencies of the list whose go.mod Run can read.
DirectReadable ==
    {k \in DOMAIN goList :
        /\ Direct(goList[k])
        /\ goList[k].Dir /= ""
        /\ gomod[goList[k].Dir].readable}

\* The direct dependencies of the list Run skips.
Skipped ==
    {k \in DOMAIN goList :
        /\ Direct(goList[k])
        /\ (goList[k].Dir = "" \/ ~gomod[goList[k].Dir].readable)}

DirectivesOf(k) == gomod[goList[k].Dir].replace

Declares(k, X) == \E d \in ToSet(DirectivesOf(k)) : d.Old = X

DeclaresNonLocal(k, X) ==
    \E d \in ToSet(DirectivesOf(k)) : d.Old = X /\ ~IsLocalPath(d.New)

\* The manifest m has a line for X whose comment attributes it to D.
AnnotatedFor(m, X, D) ==
    \E l \in ToSet(Lines(m)) : l.Old = X /\ l.Comment /= <<>> /\ l.Comment[1] = D

Annotated(m, X) == \E l \in ToSet(Lines(m)) : l.Old = X /\ l.Comment /= <<>>

Logged(kind, X) == \E l \in ToSet(output) : l.kind = kind /\ l.rec.Old = X

\* The manifest m has the override of r, annotated `// from: r.Source`.
Carries(m, r) ==
    \E l \in ToSet(Lines(m)) :
        /\ l.Old = r.Old
        /\ l.New = r.New
        /\ l.NewVer = r.NewVer
        /\ r.Source \in ToSet(l.Comment)

\* C1: after a non-dry run that returned nil, every reconciled record is in the
\* project's go.mod as Old => New NewVer with the annotation `// from: Source`.
\* Stated for the runs whose reads and writes of go.mod all succeeded, on a go.mod
\* that held no replace before the run and holds only stand-alone lines after it.
C1_AnnotatedOverrides ==
    (Finished /\ ~opts.DryRun /\ fault = {} /\ before = <<>> /\ NoBlock(manifest))
        => \A k \in DOMAIN replaces : Carries(manifest, replaces[k])

\* Semantic-version precedence of the versions of the model, lowest first.
Precedence == <<"", "v0.9.0", "v1.0.0-rc", "v1.0.0", "v1.2.0">>

Rank(v) == CHOOSE k \in DOMAIN Precedence : Precedence[k] = v

KeyOf(r) == <<r.Old, r.OldVer>>

\* C2: Deduplicate returns exactly one record for each key (Old, OldVer) of its
\* input and no record that is not in the input, and the record of a key has no
\* higher NewVer than any input record of that key.
C2_OnePerKeyLowest ==
    pc = "deduped" =>
        /\ {KeyOf(r) : r \in ToSet(replaces)} = {KeyOf(r) : r \in ToSet(allReplaces)}
        /\ Len(replaces) = Cardinality({KeyOf(r) : r \in ToSet(allReplaces)})
        /\ ToSet(replaces) \subseteq ToSet(allReplaces)
        /\ \A r \in ToSet(replaces), q \in ToSet(allReplaces) :
              KeyOf(r) = KeyOf(q) => Rank(r.NewVer) <= Rank(q.NewVer)

\* A list of three records in which a later record of a key has a lower version
\* than an earlier one, and another key occurs.
C2_Witness ==
    /\ pc = "deduped"
    /\ Len(allReplaces) = 3
    /\ Len(replaces) = 2
    /\ \E a, b \in DOMAIN allReplaces :
          /\ a < b
          /\ KeyOf(allReplaces[a]) = KeyOf(allReplaces[b])
          /\ Rank(allReplaces[a].NewVer) > Rank(allReplaces[b].NewVer)

\* C3 as documented: when the manifest had an override for X annotated as from D and
\* D's go.mod declares no override for X, a non-dry run that returned nil leaves
\* no override for X and logs "Removed stale" for X.  Stated for the runs whose
\* reads and writes of go.mod all succeeded, on a go.mod all whose overrides for
\* X were annotated.
C3_StaleRemovedAsClaimed ==
    \A X \in Olds, D \in {D1, D2} :
        ( /\ Finished
          /\ ~opts.DryRun
          /\ fault = {}
          /\ AnnotatedFor(before, X, D)
          /\ \A l \in ToSet(Lines(before)) : l.Old = X => l.Comment /= <<>>
          /\ \E k \in DirectReadable : goList[k].Path = D /\ ~Declares(k, X) )
        => ( /\ \A l \in ToSet(Lines(manifest)) : l.Old /= X
             /\ Logged("Removed stale", X) )

\* C3, amended: when the manifest had an annotated override for X, no direct
\* dependency whose go.mod Run reads declares a non-local override for X, and
\* findStaleReplaces could read the manifest, a non-dry run that returned nil
\* leaves no annotated override for X and logs "Removed stale" for X.
C3_StaleRemoved ==
    \A X \in Olds :
        ( /\ Finished
          /\ ~opts.DryRun
          /\ "findStaleReplaces" \notin fault
          /\ Annotated(before, X)
          /\ \A k \in DirectReadable : ~DeclaresNonLocal(k, X) )
        => ( /\ ~Annotated(manifest, X)
             /\ Logged("Removed stale", X) )

\* A finished run that removed the annotated overrides for x, with and without
\* an old version, while a dependency declares only a local override for x.
C3_Witness ==
    /\ Finished
    /\ ~opts.DryRun
    /\ "findStaleReplaces" \notin fault
    /\ \E l \in ToSet(Lines(before)) : l.Old = "x" /\ l.OldVer /= "" /\ l.Comment /= <<>>
    /\ \E k \in DirectReadable : Declares(k, "x")
    /\ \A k \in DirectReadable : ~DeclaresNonLocal(k, "x")
    /\ replaces /= <<>>
    /\ Logged("Removed stale", "x")

\* C4: with DryRun set the manifest is what it was when the run began and no
\* edit or tidy command is run.
C4_DryRunChangesNothing ==
    opts.DryRun => (manifest = before /\ cmds = <<>>)

\* A finished dry run that had overrides to apply and stale ones to remove.
C4_Witness ==
    /\ opts.DryRun
    /\ Finished
    /\ Logged("Would apply", "a")
    /\ Logged("Would remove", "x")

\* C5: no record with a local New is in the accumulated list, in the reconciled
\* list or in a -replace command.
C5_NoLocalPropagated ==
    /\ \A r \in ToSet(allReplaces) \cup ToSet(replaces) : ~IsLocalPath(r.New)
    /\ \A c \in ToSet(cmds) : c.op = "replace" => ~IsLocalPath(c.New)

\* A finished run that edited the manifest while a dependency it read
\* declares an override with a local target.
C5_Witness ==
    /\ Finished
    /\ \E c \in ToSet(cmds) : c.op = "replace"
    /\ \E k \in DirectReadable : \E d \in ToSet(DirectivesOf(k)) : IsLocalPath(d.New)

\* The paths documented as local: ".", "..", a "./" or "../" prefix, a leading
\* separator, or one letter followed by ":".
ClaimedLocal(p) ==
    /\ p /= <<>>
    /\ \/ p = <<".">>
       \/ p = <<".", ".">>
       \/ HasPrefix(p, <<".", "/">>)
       \/ HasPrefix(p, <<".", ".", "/">>)
       \/ HasPrefix(p, <<"/">>)
       \/ (Len(p) >= 2 /\ p[1] \in Letters /\ p[2] = ":")

\* C6: IsLocalPath(t) is true exactly for the documented strings.
C6_ClassifiesAsClaimed ==
    pc = "classified" => (local <=> ClaimedLocal(path))

\* C7: two executions of Deduplicate on the same list return the records in
\* the same order.
C7_SameOrder ==
    (pc = "deduped" /\ runNo = 2) => replaces = first.replaces

\* C8: a second run after a run that returned nil changes nothing in the
\* manifest.  Stated for the runs without tidy whose reads and writes of go.mod
\* and whose commands all succeeded, on a go.mod that held no replace before the
\* first run and held only stand-alone lines after it.
C8_SecondRunChangesNothing ==
    ( /\ runNo = 2
      /\ Finished
      /\ opts.SkipTidy
      /\ fault = {}
      /\ first.before = <<>>
      /\ NoBlock(before) )
    => manifest = before

CmdRank(op) == IF op = "replace" THEN 1 ELSE IF op = "dropreplace" THEN 2 ELSE 3

CmdsOf(op) == LET Is(c) == c.op = op IN SelectSeq(cmds, Is)

C9_Order ==
    /\ \A a, b \in DOMAIN cmds :
          a < b => (CmdRank(cmds[a].op) <= CmdRank(cmds[b].op) /\ cmds[a].ok)
    /\ Len(CmdsOf("tidy")) <= 1
    /\ opts.SkipTidy => CmdsOf("tidy") = <<>>
    /\ (cmds /= <<>> /\ ~cmds[Len(cmds)].ok) => (pc = "done" /\ err /= "none")
    /\ (Finished /\ cmds /= <<>>) =>
          /\ Len(CmdsOf("replace")) = Len(replaces)
          /\ \A k \in DOMAIN replaces :
                /\ CmdsOf("replace")[k].Old = replaces[k].Old
                /\ CmdsOf("replace")[k].New = replaces[k].New
                /\ CmdsOf("replace")[k].NewVer = replaces[k].NewVer
          /\ Len(CmdsOf("dropreplace")) = Len(stale)
          /\ \A k \in DOMAIN stale : CmdsOf("dropreplace")[k].Old = stale[k].Old
          /\ opts.SkipTidy \/ Len(CmdsOf("tidy")) = 1

C9_FailedStep ==
    (cmds' /= cmds /\ ~cmds'[Len(cmds')].ok) => (manifest' = manifest /\ pc' = "done")

\* C9: the commands run are the edits, then the removals, then at most one tidy
\* (none with SkipTidy); only the last command run can have failed, Run then
\* returns an error, and the failing step leaves the manifest as the earlier
\* edits made it.
C9_CommandOrder == []C9_Order /\ [][C9_FailedStep]_vars

\* A run that changed the manifest and then returned the error of a removal.
C9_Witness ==
    /\ pc = "done"
    /\ err = "removing stale replace"
    /\ Len(cmds) >= 2
    /\ manifest /= before

NonLocalDirective(d) == ~IsLocalPath(d.New)

\* The non-local overrides of the direct dependencies Run can read, from the
\* k-th module of the list on, each with the Path of the dependency declaring it.
RECURSIVE ExpectedFrom(_)
ExpectedFrom(k) ==
    IF k > Len(goList) THEN <<>>
    ELSE (IF k \in DirectReadable
          THEN LET ds == SelectSeq(DirectivesOf(k), NonLocalDirective)
               IN  [j \in DOMAIN ds |->
                       Replace(ds[j].Old, ds[j].OldVer, ds[j].New, ds[j].NewVer,
                               goList[k].Path)]
          ELSE <<>>)
         \o ExpectedFrom(k + 1)

ExpectedWinners ==
    LET m == byKeyAfter(ExpectedFrom(1), Len(ExpectedFrom(1)))
    IN  {m[k] : k \in DOMAIN m}

\* C10: the reconciled records are Deduplicate of the stamped non-local
\* overrides of the dependencies Run does not skip, and Run returns no error
\* but that of os.Getwd, of `go list` or of the command that failed last.
C10_SkippedDependency ==
    /\ (pc \in {"apply", "remove", "tidy"} \/ (pc = "done" /\ err \notin {"getwd", "listing deps"}))
          => ToSet(replaces) = ExpectedWinners
    /\ pc \in {"collect", "reconcile"} => err = "none"
    /\ (pc = "done" /\ err \notin {"none", "getwd", "listing deps"})
          => (cmds /= <<>> /\ ~cmds[Len(cmds)].ok)

\* A finished run that skipped one dependency and applied an override of
\* another.
C10_Witness ==
    /\ Finished
    /\ Skipped /= {}
    /\ replaces /= <<>>
    /\ \E c \in ToSet(cmds) : c.op = "replace"

====
